---- MODULE Spec2Model ----
(***************************************************************************)
(* Model of qibullet/ros_wrapper.py: the RosWrapper / PepperRosWrapper     *)
(* adapter between the simulated Pepper robot and the ROS bus.             *)
(*                                                                         *)
(* One caller thread calls launchWrapper and stopWrapper; every successful *)
(* launchWrapper starts a Thread running _spin; the middleware delivers    *)
(* command messages to the subscriber callbacks at any time.               *)
(***************************************************************************)
EXTENDS Integers, Sequences, FiniteSets

\* Number of launchWrapper calls in a run (each may start one spin thread).
MaxLaunches == 2
\* Laser readings offered by the simulator are ramps with bases 0..MaxBase.
MaxBase == 2

\* Rays per laser (the 15.0 + 15.0 + 15.0 of angle_increment).
NbRays == 15
\* Entries of a blind zone between two lasers ([-1]*8).
BlindZone == 8

Threads == 1..MaxLaunches

VARIABLES
    spin_thread,            \* self.spin_thread: 0 is None, else a thread id
    _wrapper_termination,   \* self._wrapper_termination
    roslauncher,            \* self.roslauncher: "None", "started", "stopped"
    subscribers,            \* rospy.Subscriber objects made per command topic
    caller,                 \* where the thread calling the wrapper is
    exiting,                \* the interpreter runs its atexit handlers
    stop_log,               \* what the current / last stopWrapper call did
    tpc,                    \* tpc[t]: where spin thread t is in _spin
    tick,                   \* tick[t]: messages t published in its current tick
    laser_seen,             \* laser_seen[t]: isActive() as read in this tick
    camera,                 \* camera[t]: getActiveCamera() as read in this tick
    sim_lasers,             \* the simulator's <<right, front, left>> readings
    received,               \* the last command message delivered
    sim_calls               \* control calls made on the simulator for it

vars == <<spin_thread, _wrapper_termination, roslauncher, subscribers, caller,
          exiting, stop_log, tpc, tick, laser_seen, camera, sim_lasers,
          received, sim_calls>>

wrapper_vars == <<spin_thread, _wrapper_termination, roslauncher, subscribers>>
thread_vars == <<tpc, tick, laser_seen, camera>>
command_vars == <<received, sim_calls>>

----------------------------------------------------------------------------
(* Messages published by the spin loop *)

Msg(topic, encoding, ranges) ==
    [topic |-> topic, encoding |-> encoding, ranges |-> ranges]

JointStateMsg == Msg("/joint_states", "", <<>>)
TransformMsg == Msg("tf", "", <<>>)
OdomMsg == Msg("odom", "", <<>>)

Cameras == {"ID_CAMERA_TOP", "ID_CAMERA_BOTTOM", "ID_CAMERA_DEPTH"}

\* What getActiveCamera() / getFrame() can give: no camera, a camera without
\* a frame, or one of the three cameras with a frame.
CameraReads == {"None", "no_frame"} \cup Cameras

CameraName(id) ==
    CASE id = "ID_CAMERA_TOP" -> "front"
      [] id = "ID_CAMERA_BOTTOM" -> "bottom"
      [] id = "ID_CAMERA_DEPTH" -> "depth"

CameraTopics == {"front", "bottom", "depth"}

\* Faulty variant of Encoding: every image is tagged bgr8.
Encoding_AllBgr8(id) == "bgr8"

Encoding(id) ==
    IF id = "ID_CAMERA_DEPTH" THEN "16UC1" ELSE "bgr8"

ImageMsg(id) == Msg("/camera/" \o CameraName(id) \o "/image_raw", Encoding(id), <<>>)
CameraInfoMsg(id) == Msg("/camera/" \o CameraName(id) \o "/camera_info", "", <<>>)

----------------------------------------------------------------------------
(* Laser scan layout *)

NotAList == [is_list |-> FALSE, values |-> <<>>]
ListOf(s) == [is_list |-> TRUE, values |-> s]

\* A reading of NbRays distinct values starting above base b.
Ramp(b) == [i \in 1..NbRays |-> b * NbRays + i]

Readings == {NotAList} \cup {ListOf(Ramp(b)) : b \in 0..MaxBase}

reversed(s) == [i \in 1..Len(s) |-> s[Len(s) + 1 - i]]

Blind == [i \in 1..BlindZone |-> -1]

\* Faulty variant of LaserRanges: the readings are not reversed.
LaserRanges_NotReversed(right_scan, front_scan, left_scan) ==
    (IF right_scan.is_list THEN right_scan.values \o Blind ELSE <<>>)
    \o (IF front_scan.is_list THEN front_scan.values \o Blind ELSE <<>>)
    \o (IF left_scan.is_list THEN left_scan.values ELSE <<>>)

LaserRanges(right_scan, front_scan, left_scan) ==
    (IF right_scan.is_list THEN reversed(right_scan.values) \o Blind ELSE <<>>)
    \o (IF front_scan.is_list THEN reversed(front_scan.values) \o Blind ELSE <<>>)
    \o (IF left_scan.is_list THEN reversed(left_scan.values) ELSE <<>>)

LaserScanMsg ==
    Msg("/laser", "", LaserRanges(sim_lasers[1], sim_lasers[2], sim_lasers[3]))

----------------------------------------------------------------------------
(* The spin thread: _spin and the methods it calls *)

Alive(t) == t \in Threads /\ tpc[t] \notin {"unborn", "returned", "excepted"}

TickSteps == {"sleep", "joint_states", "lasers", "odom_tf", "odom",
              "camera", "camera_info"}

Goto(t, label) == tpc' = [tpc EXCEPT ![t] = label]
Publish(t, m) == tick' = [tick EXCEPT ![t] = Append(@, m)]

\* while not self._wrapper_termination
SpinWhile(t) ==
    /\ tpc[t] = "while"
    /\ Goto(t, IF _wrapper_termination THEN "returned" ELSE "sleep")
    /\ tick' = [tick EXCEPT ![t] = <<>>]
    /\ laser_seen' = [laser_seen EXCEPT ![t] = "unread"]
    /\ camera' = [camera EXCEPT ![t] = "unread"]
    /\ UNCHANGED <<wrapper_vars, caller, exiting, stop_log, sim_lasers, command_vars>>

\* rate.sleep()
SpinSleep(t) ==
    /\ tpc[t] = "sleep"
    /\ Goto(t, "joint_states")
    /\ UNCHANGED <<wrapper_vars, caller, exiting, stop_log, tick, laser_seen,
                   camera, sim_lasers, command_vars>>

\* self.joint_states_pub.publish(self._getJointStateMsg())
PublishJointState(t) ==
    /\ tpc[t] = "joint_states"
    /\ Publish(t, JointStateMsg)
    /\ Goto(t, "lasers")
    /\ UNCHANGED <<wrapper_vars, caller, exiting, stop_log, laser_seen,
                   camera, sim_lasers, command_vars>>

_updateLasers(t) ==
    /\ tpc[t] = "lasers"
    /\ \E active \in BOOLEAN :
        /\ laser_seen' = [laser_seen EXCEPT ![t] = IF active THEN "active" ELSE "inactive"]
        /\ IF active THEN Publish(t, LaserScanMsg) ELSE UNCHANGED tick
    /\ Goto(t, "odom_tf")
    /\ UNCHANGED <<wrapper_vars, caller, exiting, stop_log, camera, sim_lasers,
                   command_vars>>

\* Faulty variant of SendTransform: the odometry message goes out first.
SendTransform_OdomFirst(t) ==
    /\ tpc[t] = "odom_tf"
    /\ Publish(t, OdomMsg)
    /\ Goto(t, "odom")
    /\ UNCHANGED <<wrapper_vars, caller, exiting, stop_log, laser_seen,
                   camera, sim_lasers, command_vars>>

\* _broadcastOdom, up to self.transform_broadcaster.sendTransform(odom_trans)
SendTransform(t) ==
    /\ tpc[t] = "odom_tf"
    /\ Publish(t, TransformMsg)
    /\ Goto(t, "odom")
    /\ UNCHANGED <<wrapper_vars, caller, exiting, stop_log, laser_seen,
                   camera, sim_lasers, command_vars>>

\* Faulty variant of PublishOdom: the tick also stops the robot's base.
PublishOdom_Moves(t) ==
    /\ tpc[t] = "odom"
    /\ Publish(t, OdomMsg)
    /\ Goto(t, "camera")
    /\ sim_calls' = <<[op |-> "move", args |-> <<0, 0, 0>>]>>
    /\ UNCHANGED <<wrapper_vars, caller, exiting, stop_log, laser_seen,
                   camera, sim_lasers, received>>

\* _broadcastOdom, from there to self.odom_pub.publish(odom)
PublishOdom(t) ==
    /\ tpc[t] = "odom"
    /\ Publish(t, OdomMsg)
    /\ Goto(t, "camera")
    /\ UNCHANGED <<wrapper_vars, caller, exiting, stop_log, laser_seen,
                   camera, sim_lasers, command_vars>>

\* _broadcastCamera, up to the publication of the image: a failed assert is
\* caught inside the method, which then returns normally.
PublishImage(t) ==
    /\ tpc[t] = "camera"
    /\ \E cam \in CameraReads :
        /\ camera' = [camera EXCEPT ![t] = cam]
        /\ IF cam \in Cameras
           THEN Publish(t, ImageMsg(cam)) /\ Goto(t, "camera_info")
           ELSE UNCHANGED tick /\ Goto(t, "while")
    /\ UNCHANGED <<wrapper_vars, caller, exiting, stop_log, laser_seen,
                   sim_lasers, command_vars>>

\* _broadcastCamera, the publication of the camera info after the image
PublishCameraInfo(t) ==
    /\ tpc[t] = "camera_info"
    /\ Publish(t, CameraInfoMsg(camera[t]))
    /\ Goto(t, "while")
    /\ UNCHANGED <<wrapper_vars, caller, exiting, stop_log, laser_seen,
                   camera, sim_lasers, command_vars>>

\* Faulty variant of SpinExcept: the handler also sets the termination flag.
SpinExcept_SetsFlag(t) ==
    /\ tpc[t] \in TickSteps
    /\ Goto(t, "excepted")
    /\ tick' = [tick EXCEPT ![t] = <<>>]
    /\ laser_seen' = [laser_seen EXCEPT ![t] = "unread"]
    /\ camera' = [camera EXCEPT ![t] = "unread"]
    /\ _wrapper_termination' = TRUE
    /\ UNCHANGED <<spin_thread, roslauncher, subscribers, caller, exiting,
                   stop_log, sim_lasers, command_vars>>

\* except Exception as e: print(...) -- any call of the tick may raise
SpinExcept(t) ==
    /\ tpc[t] \in TickSteps
    /\ Goto(t, "excepted")
    /\ tick' = [tick EXCEPT ![t] = <<>>]
    /\ laser_seen' = [laser_seen EXCEPT ![t] = "unread"]
    /\ camera' = [camera EXCEPT ![t] = "unread"]
    /\ UNCHANGED <<wrapper_vars, caller, exiting, stop_log, sim_lasers, command_vars>>

_spin(t) ==
    \/ SpinWhile(t)
    \/ SpinSleep(t)
    \/ PublishJointState(t)
    \/ _updateLasers(t)
    \/ SendTransform(t)
    \/ PublishOdom(t)
    \/ PublishImage(t)
    \/ PublishCameraInfo(t)
    \/ SpinExcept(t)

----------------------------------------------------------------------------
(* launchWrapper and stopWrapper, called from the caller's thread *)

NoStop == [joined |-> FALSE, roslauncher_stop |-> "not_called"]

NewThread == CHOOSE t \in Threads : tpc[t] = "unborn" /\ \A u \in Threads : u < t => tpc[u] # "unborn"

\* Faulty variant of launchWrapper: the spin thread is started before the
\* robot description is read, so also when reading it fails.
launchWrapper_StartsFirst(io_error) ==
    /\ caller = "idle"
    /\ ~exiting
    /\ subscribers < MaxLaunches
    /\ subscribers' = subscribers + 1
    /\ roslauncher' = IF io_error THEN roslauncher ELSE "started"
    /\ _wrapper_termination' = FALSE
    /\ spin_thread' = NewThread
    /\ tpc' = [tpc EXCEPT ![NewThread] = "while"]
    /\ UNCHANGED <<caller, exiting, stop_log, tick, laser_seen, camera,
                   sim_lasers, command_vars>>

\* launchWrapper; io_error: reading the robot description raises IOError
launchWrapper(io_error) ==
    /\ caller = "idle"
    /\ ~exiting
    /\ subscribers < MaxLaunches
    /\ subscribers' = subscribers + 1
    /\ IF io_error
       THEN UNCHANGED <<spin_thread, _wrapper_termination, roslauncher, tpc>>
       ELSE /\ roslauncher' = "started"
            /\ _wrapper_termination' = FALSE
            /\ spin_thread' = NewThread
            /\ tpc' = [tpc EXCEPT ![NewThread] = "while"]
    /\ UNCHANGED <<caller, exiting, stop_log, tick, laser_seen, camera,
                   sim_lasers, command_vars>>

\* stopWrapper: self._wrapper_termination = True
StopSetFlag ==
    /\ caller = "idle"
    /\ ~exiting
    /\ _wrapper_termination' = TRUE
    /\ stop_log' = NoStop
    /\ caller' = "stop_assert"
    /\ UNCHANGED <<spin_thread, roslauncher, subscribers, exiting, thread_vars,
                   sim_lasers, command_vars>>

\* The atexit-registered stopWrapper: the interpreter runs atexit handlers
\* once its non-daemon threads have ended.
AtExit ==
    /\ caller = "idle"
    /\ ~exiting
    /\ \A t \in Threads : ~Alive(t)
    /\ exiting' = TRUE
    /\ _wrapper_termination' = TRUE
    /\ stop_log' = NoStop
    /\ caller' = "stop_assert"
    /\ UNCHANGED <<spin_thread, roslauncher, subscribers, thread_vars,
                   sim_lasers, command_vars>>

\* stopWrapper: the three asserts of the try block
StopAssert ==
    /\ caller = "stop_assert"
    /\ caller' = IF spin_thread # 0 /\ Alive(spin_thread)
                 THEN "stop_join" ELSE "stop_roslauncher"
    /\ UNCHANGED <<wrapper_vars, exiting, stop_log, thread_vars, sim_lasers,
                   command_vars>>

\* Faulty variant of StopJoin: the join does not wait for the thread.
StopJoin_NoWait ==
    /\ caller = "stop_join"
    /\ stop_log' = [stop_log EXCEPT !.joined = TRUE]
    /\ caller' = "stop_roslauncher"
    /\ UNCHANGED <<wrapper_vars, exiting, thread_vars, sim_lasers, command_vars>>

\* stopWrapper: self.spin_thread.join() returns once the thread has ended
StopJoin ==
    /\ caller = "stop_join"
    /\ ~Alive(spin_thread)
    /\ stop_log' = [stop_log EXCEPT !.joined = TRUE]
    /\ caller' = "stop_roslauncher"
    /\ UNCHANGED <<wrapper_vars, exiting, thread_vars, sim_lasers, command_vars>>

\* Faulty variant of StopRoslauncher: a stopped roslauncher is not stopped
\* again.
StopRoslauncher_Once ==
    /\ caller = "stop_roslauncher"
    /\ IF roslauncher = "started"
       THEN /\ stop_log' = [stop_log EXCEPT !.roslauncher_stop = "first"]
            /\ roslauncher' = "stopped"
       ELSE UNCHANGED <<stop_log, roslauncher>>
    /\ caller' = IF exiting THEN "exited" ELSE "idle"
    /\ UNCHANGED <<spin_thread, _wrapper_termination, subscribers, exiting,
                   thread_vars, sim_lasers, command_vars>>

\* stopWrapper: if self.roslauncher is not None: self.roslauncher.stop()
StopRoslauncher ==
    /\ caller = "stop_roslauncher"
    /\ IF roslauncher # "None"
       THEN /\ stop_log' = [stop_log EXCEPT !.roslauncher_stop =
                              IF roslauncher = "started" THEN "first" ELSE "again"]
            /\ roslauncher' = "stopped"
       ELSE UNCHANGED <<stop_log, roslauncher>>
    /\ caller' = IF exiting THEN "exited" ELSE "idle"
    /\ UNCHANGED <<spin_thread, _wrapper_termination, subscribers, exiting,
                   thread_vars, sim_lasers, command_vars>>

stopWrapper ==
    \/ StopSetFlag
    \/ AtExit
    \/ StopAssert
    \/ StopJoin
    \/ StopRoslauncher

----------------------------------------------------------------------------
(* Command messages and the subscriber callbacks *)

TwistMsgs == {[linear |-> [x |-> 1, y |-> 2], angular |-> [z |-> 3]]}

JointAnglesMsgs ==
    {[joint_names |-> <<"HeadYaw">>, joint_angles |-> <<1>>, speed |-> 5, speeds |-> <<>>],
     [joint_names |-> <<"HeadYaw">>, joint_angles |-> <<1>>, speed |-> 5, speeds |-> <<7>>]}

GoalMsgs ==
    {[position |-> [x |-> 1, y |-> 2], orientation |-> <<0, 0, 1, 0>>,
      speed_percentage |-> 1, referenceFrame |-> 2]}

EmptyMsgs == {[empty |-> TRUE]}

\* pybullet.getEulerFromQuaternion(q)[-1] in half turns, for the quaternions
\* <<x, y, z, w>> of a rotation about z by 0 or by pi.
Yaw(q) ==
    LET siny == 2 * (q[4] * q[3] + q[1] * q[2])
        cosy == 1 - 2 * (q[2] * q[2] + q[3] * q[3])
    IN  IF siny = 0 /\ cosy < 0 THEN 1 ELSE 0

\* speed_percentage * MAX_LINEAR_VELOCITY + MIN_LINEAR_VELOCITY, kept symbolic
Speed(percentage) == <<"MAX_LINEAR_VELOCITY", percentage, "MIN_LINEAR_VELOCITY">>

\* Each callback is given as the sequence of simulator calls it makes.
_jointAnglesCallback(msg) ==
    LET velocity == IF Len(msg.speeds) # 0
                    THEN [list |-> TRUE, speeds |-> msg.speeds, speed |-> 0]
                    ELSE [list |-> FALSE, speeds |-> <<>>, speed |-> msg.speed]
    IN  <<[op |-> "setAngles",
           args |-> [joint_list |-> msg.joint_names,
                     position_list |-> msg.joint_angles,
                     velocity |-> velocity]]>>

_velocityCallback(msg) ==
    <<[op |-> "move", args |-> <<msg.linear.x, msg.linear.y, msg.angular.z>>]>>

_moveToCallback(msg) ==
    <<[op |-> "moveTo",
       args |-> [x |-> msg.position.x, y |-> msg.position.y,
                 theta |-> Yaw(msg.orientation),
                 frame |-> <<msg.referenceFrame>>,
                 speed |-> Speed(msg.speed_percentage),
                 async |-> TRUE]]>>

_killMoveCallback(msg) ==
    <<[op |-> "moveTo",
       args |-> [x |-> 0, y |-> 0, theta |-> 0, frame |-> <<>>,
                 speed |-> <<>>, async |-> TRUE]]>>

Callback(topic, msg) ==
    CASE topic = "/joint_angles" -> _jointAnglesCallback(msg)
      [] topic = "/cmd_vel" -> _velocityCallback(msg)
      [] topic = "/move_base_simple/goal" -> _moveToCallback(msg)
      [] topic = "/move_base_simple/cancel" -> _killMoveCallback(msg)

\* The calls made by n Subscriber objects of one topic receiving msg.
RECURSIVE Dispatch(_, _, _)
Dispatch(n, topic, msg) ==
    IF n = 0 THEN <<>> ELSE Dispatch(n - 1, topic, msg) \o Callback(topic, msg)

\* The middleware hands a message to every Subscriber of its topic; every
\* launchWrapper call has made one Subscriber per command topic.
Deliver(topic, msg) ==
    /\ subscribers > 0
    /\ caller # "exited"
    /\ received' = [topic |-> topic, msg |-> msg]
    /\ sim_calls' = Dispatch(subscribers, topic, msg)
    /\ UNCHANGED <<wrapper_vars, caller, exiting, stop_log, thread_vars, sim_lasers>>

ReceiveJointAngles == \E msg \in JointAnglesMsgs : Deliver("/joint_angles", msg)
ReceiveVelocity == \E msg \in TwistMsgs : Deliver("/cmd_vel", msg)
ReceiveGoal == \E msg \in GoalMsgs : Deliver("/move_base_simple/goal", msg)
ReceiveCancel == \E msg \in EmptyMsgs : Deliver("/move_base_simple/cancel", msg)

----------------------------------------------------------------------------
(* Specifications *)

NoCommand == [topic |-> "", msg |-> <<>>]

DefaultLasers == <<ListOf(Ramp(0)), ListOf(Ramp(1)), ListOf(Ramp(2))>>

\* RosWrapper.__init__
Constructed ==
    /\ spin_thread = 0
    /\ _wrapper_termination = FALSE
    /\ roslauncher = "None"
    /\ subscribers = 0
    /\ caller = "idle"
    /\ exiting = FALSE
    /\ stop_log = NoStop
    /\ tpc = [t \in Threads |-> "unborn"]
    /\ tick = [t \in Threads |-> <<>>]
    /\ laser_seen = [t \in Threads |-> "unread"]
    /\ camera = [t \in Threads |-> "unread"]
    /\ received = NoCommand
    /\ sim_calls = <<>>

Init == Constructed /\ sim_lasers = DefaultLasers

\* The caller's thread and the spin threads.
SpinNext ==
    \/ \E io_error \in BOOLEAN : launchWrapper(io_error)
    \/ stopWrapper
    \/ \E t \in Threads : _spin(t)

Next ==
    \/ SpinNext
    \/ ReceiveJointAngles
    \/ ReceiveVelocity
    \/ ReceiveGoal
    \/ ReceiveCancel

Spec == Init /\ [][Next]_vars

\* The wrapper without command traffic: a delivery reads subscribers and
\* caller and changes received and sim_calls only, which no step of the
\* caller or of a spin thread reads.
SpinSpec == Init /\ [][SpinNext]_vars

\* Every call made by a spin thread returns or raises: a live thread takes
\* its next step.
FairSpec == SpinSpec /\ \A t \in Threads : WF_vars(_spin(t))

\* The laser layout over every combination of readings, for one spin thread
\* whose calls all return.
LaserInit == Constructed /\ sim_lasers \in Readings \X Readings \X Readings

LaserNext ==
    \/ subscribers = 0 /\ launchWrapper(FALSE)
    \/ \E t \in Threads :
        \/ SpinWhile(t)
        \/ SpinSleep(t)
        \/ PublishJointState(t)
        \/ _updateLasers(t)
        \/ SendTransform(t)
        \/ PublishOdom(t)
        \/ PublishImage(t)
        \/ PublishCameraInfo(t)

LaserSpec == LaserInit /\ [][LaserNext]_vars

----------------------------------------------------------------------------
(* Properties *)

Topics(s) == [i \in 1..Len(s) |-> s[i].topic]

\* A tick of thread t has run to its end and the loop is about to test the
\* termination flag again.
TickCompleted(t) == tpc[t] = "while" /\ tick[t] # <<>>

\* C1: after launchWrapper started the spin thread, the loop leaves the
\* while test towards the sleep exactly when the termination flag is false
\* and returns exactly when it is true; once stopWrapper has set the flag
\* while the thread the wrapper references is alive, that thread eventually
\* ends (every call of the loop returns or raises), and stopWrapper leaves
\* its join only when that thread has ended.
C1_SpinUntilStopped ==
    /\ [][\A t \in Threads :
            (tpc[t] = "while" /\ tpc'[t] # "while")
                => tpc'[t] = (IF _wrapper_termination THEN "returned" ELSE "sleep")]_vars
    /\ [][(caller = "stop_join" /\ caller' # "stop_join")
            => (~Alive(spin_thread) /\ stop_log'.joined)]_vars
    /\ \A t \in Threads :
            (caller \in {"stop_assert", "stop_join"} /\ spin_thread = t /\ Alive(t))
                ~> ~Alive(t)

\* C1 witness: stopWrapper has joined a spin thread that was alive and that
\* left its loop through the termination flag.
C1_Witness ==
    /\ caller = "stop_roslauncher"
    /\ stop_log.joined
    /\ spin_thread # 0
    /\ tpc[spin_thread] = "returned"

\* C2: an exception raised by a step of a tick ends the thread without
\* reaching the caller or another thread: the step publishes nothing, leaves
\* the termination flag as it was, and the thread never publishes again.
C2_ExceptionSwallowed ==
    [][\A t \in Threads :
        /\ (tpc[t] # "excepted" /\ tpc'[t] = "excepted")
            => /\ tpc[t] \in TickSteps
               /\ tick'[t] = <<>>
               /\ _wrapper_termination' = _wrapper_termination
               /\ caller' = caller
               /\ \A u \in Threads \ {t} : tpc'[u] = tpc[u] /\ tick'[u] = tick[u]
        /\ tpc[t] = "excepted"
            => (tpc'[t] = "excepted" /\ tick'[t] = <<>>)]_vars

\* C2 witness: a spin thread was ended by an exception while the termination
\* flag is still false.
C2_Witness ==
    \E t \in Threads : tpc[t] = "excepted" /\ ~_wrapper_termination /\ caller = "idle"

\* C4: a tick publishes nothing before its sleep has returned, and a tick
\* that ran to its end published, in this order: one joint state, one laser
\* scan if and only if the laser manager was active, one odom transform, one
\* odometry message, then the camera messages.
C4_TickOrder ==
    \A t \in Threads :
        /\ tpc[t] \in {"sleep", "joint_states"} => tick[t] = <<>>
        /\ TickCompleted(t) =>
            \E cams \in {<<>>} \cup
                        {<<"/camera/" \o c \o "/image_raw", "/camera/" \o c \o "/camera_info">> :
                            c \in CameraTopics} :
                Topics(tick[t]) =
                    <<"/joint_states">>
                    \o (IF laser_seen[t] = "active" THEN <<"/laser">> ELSE <<>>)
                    \o <<"tf", "odom">>
                    \o cams

\* C4 witness: a completed tick with a laser scan and camera messages.
C4_Witness ==
    \E t \in Threads : TickCompleted(t) /\ Len(tick[t]) = 6

CommandTopics == {"/joint_angles", "/cmd_vel", "/move_base_simple/goal",
                  "/move_base_simple/cancel"}

\* C5: no step of a spin thread makes a control call on the simulator; the
\* control calls change only when a command message is delivered to the
\* subscriber callbacks, and then every call is one the callback of that
\* topic makes.
C5_SpinOnlyReads ==
    [][/\ (tpc' # tpc \/ tick' # tick) => (sim_calls' = sim_calls /\ received' = received)
       /\ sim_calls' # sim_calls =>
            /\ thread_vars' = thread_vars
            /\ received'.topic \in CommandTopics
            /\ \A i \in 1..Len(sim_calls') :
                  <<sim_calls'[i]>> = Callback(received'.topic, received'.msg)]_vars

\* C5 witness: a spin thread is publishing while a command has been
\* forwarded to the simulator.
C5_Witness ==
    /\ sim_calls # <<>>
    /\ \E t \in Threads : tpc[t] = "camera_info" /\ Len(tick[t]) >= 4

\* C3: every delivered command message has made exactly one control call,
\* the one matching its topic.
C3_OneCallPerMessage ==
    received.topic # "" =>
        sim_calls =
            CASE received.topic = "/cmd_vel" ->
                    <<[op |-> "move",
                       args |-> <<received.msg.linear.x, received.msg.linear.y,
                                  received.msg.angular.z>>]>>
              [] received.topic = "/joint_angles" ->
                    <<[op |-> "setAngles",
                       args |-> [joint_list |-> received.msg.joint_names,
                                 position_list |-> received.msg.joint_angles,
                                 velocity |->
                                    IF received.msg.speeds # <<>>
                                    THEN [list |-> TRUE, speeds |-> received.msg.speeds, speed |-> 0]
                                    ELSE [list |-> FALSE, speeds |-> <<>>,
                                          speed |-> received.msg.speed]]]>>
              [] received.topic = "/move_base_simple/goal" ->
                    _moveToCallback(received.msg)
              [] received.topic = "/move_base_simple/cancel" ->
                    <<[op |-> "moveTo",
                       args |-> [x |-> 0, y |-> 0, theta |-> 0, frame |-> <<>>,
                                 speed |-> <<>>, async |-> TRUE]]>>

\* C6: once a stopWrapper call has returned, and until the next successful
\* launchWrapper, no spin thread is alive.
C6_StoppedMeansNoThread ==
    (caller = "idle" /\ _wrapper_termination) => \A t \in Threads : ~Alive(t)

\* C7: as long as every launchWrapper call has failed on reading the robot
\* description, spin_thread and roslauncher are None, no spin thread exists,
\* nothing has been published, and no stopWrapper call joins or stops a
\* roslauncher, while the subscriptions made before the failure are there.
C7_FailedLaunch ==
    (subscribers > 0 /\ roslauncher = "None") =>
        /\ spin_thread = 0
        /\ \A t \in Threads : tpc[t] = "unborn" /\ tick[t] = <<>>
        /\ caller # "stop_join"
        /\ stop_log = NoStop
        /\ (caller # "exited" => ENABLED ReceiveVelocity)

\* C7 witness: after a failed launchWrapper a stopWrapper call has returned
\* and a command message has been forwarded.
C7_Witness ==
    /\ subscribers > 0
    /\ roslauncher = "None"
    /\ caller = "idle"
    /\ _wrapper_termination
    /\ sim_calls # <<>>

\* C8: stopWrapper leaves the termination flag true; with no live spin
\* thread it goes past the join; and it calls roslauncher.stop() if and only
\* if roslauncher is not None, also when the roslauncher was stopped before.
C8_StopWrapper ==
    [][/\ (caller = "idle" /\ caller' # "idle") => _wrapper_termination'
       /\ caller' \notin {"idle"} => _wrapper_termination'
       /\ (caller = "stop_assert" /\ ~Alive(spin_thread)) => caller' # "stop_join"
       /\ (caller = "stop_roslauncher" /\ caller' # "stop_roslauncher") =>
            /\ (stop_log'.roslauncher_stop # "not_called") <=> (roslauncher # "None")
            /\ roslauncher # "None" => roslauncher' = "stopped"
            /\ roslauncher = "stopped" => stop_log'.roslauncher_stop = "again"]_vars

\* C8 witness: the atexit stopWrapper, with no spin thread to join, has
\* stopped a roslauncher that an earlier stopWrapper had stopped.
C8_Witness ==
    /\ caller = "exited"
    /\ ~stop_log.joined
    /\ stop_log.roslauncher_stop = "again"

IsLaserMsg(m) == m.topic = "/laser"

\* C9: a published scan holds the right, front and left readings that are
\* lists, each reversed, the right and the front one each followed by 8
\* entries of -1; three lists of 15 values give 61 entries; a reading that
\* is not a list adds nothing; no scan is published when the laser manager
\* is inactive.
C9_LaserLayout ==
    \A t \in Threads :
        LET scans == SelectSeq(tick[t], IsLaserMsg)
            right == sim_lasers[1]
            front == sim_lasers[2]
            left == sim_lasers[3]
            nr == IF right.is_list THEN Len(right.values) ELSE 0
            nf == IF front.is_list THEN Len(front.values) ELSE 0
            nl == IF left.is_list THEN Len(left.values) ELSE 0
            fo == IF right.is_list THEN nr + 8 ELSE 0
            lo == fo + (IF front.is_list THEN nf + 8 ELSE 0)
        IN  /\ laser_seen[t] = "inactive" => scans = <<>>
            /\ laser_seen[t] = "active" => Len(scans) = 1
            /\ \A k \in 1..Len(scans) :
                LET r == scans[k].ranges
                IN  /\ Len(r) = lo + nl
                    /\ (nr = 15 /\ nf = 15 /\ nl = 15) => Len(r) = 61
                    /\ \A i \in 1..nr : r[i] = right.values[nr + 1 - i]
                    /\ right.is_list => \A i \in 1..8 : r[nr + i] = -1
                    /\ \A i \in 1..nf : r[fo + i] = front.values[nf + 1 - i]
                    /\ front.is_list => \A i \in 1..8 : r[fo + nf + i] = -1
                    /\ \A i \in 1..nl : r[lo + i] = left.values[nl + 1 - i]

\* C9 witness: a scan of three readings that are lists has been published.
C9_Witness ==
    /\ \A i \in 1..3 : sim_lasers[i].is_list
    /\ \E t \in Threads : SelectSeq(tick[t], IsLaserMsg) # <<>>

IsCameraMsg(m) ==
    m.topic \in {"/camera/" \o c \o "/image_raw" : c \in CameraTopics}
                \cup {"/camera/" \o c \o "/camera_info" : c \in CameraTopics}

\* C10: a tick publishes on the topics of at most one camera, the active
\* one: its image (bgr8 for top and bottom, 16UC1 for depth) and then its
\* camera info, so a completed tick holds as many images as infos of each
\* camera; without an active camera or without a frame nothing is published
\* on a camera topic and the loop goes on.
C10_CameraPair ==
    \A t \in Threads :
        LET cams == SelectSeq(tick[t], IsCameraMsg)
        IN  /\ camera[t] \in {"None", "no_frame"} => (tpc[t] = "while" /\ cams = <<>>)
            /\ camera[t] = "unread" => cams = <<>>
            /\ TickCompleted(t) =>
                /\ camera[t] = "ID_CAMERA_TOP" =>
                      cams = << Msg("/camera/front/image_raw", "bgr8", <<>>),
                                Msg("/camera/front/camera_info", "", <<>>) >>
                /\ camera[t] = "ID_CAMERA_BOTTOM" =>
                      cams = << Msg("/camera/bottom/image_raw", "bgr8", <<>>),
                                Msg("/camera/bottom/camera_info", "", <<>>) >>
                /\ camera[t] = "ID_CAMERA_DEPTH" =>
                      cams = << Msg("/camera/depth/image_raw", "16UC1", <<>>),
                                Msg("/camera/depth/camera_info", "", <<>>) >>
                /\ \A c \in CameraTopics :
                      Cardinality({i \in 1..Len(cams) : cams[i].topic = "/camera/" \o c \o "/image_raw"})
                      = Cardinality({i \in 1..Len(cams) : cams[i].topic = "/camera/" \o c \o "/camera_info"})

\* C10 witness: a completed tick that published the depth camera's pair.
C10_Witness ==
    \E t \in Threads : TickCompleted(t) /\ camera[t] = "ID_CAMERA_DEPTH"

====
